---- MODULE Spec2Model ----
(***************************************************************************)
(* The exploratory-data-analysis notebook                                   *)
(* notebooks/01_eda_and_feature_selection.ipynb, run top to bottom ("Run    *)
(* All"): one action per code cell.  An uncaught exception in a cell stops  *)
(* the run; the cells after it are never executed.                          *)
(*                                                                          *)
(* Strings that are joined or split by the code (column names, file paths)  *)
(* are sequences of tokens, so that building a path from a column name and  *)
(* resolving its parent directory are computed, not assumed.                *)
(***************************************************************************)
EXTENDS Integers, Sequences, FiniteSets, TLC

VARIABLES
    pc,          \* the cell that runs next: "load", "overview", ..., "end"
    raised,      \* the uncaught exception that stopped the run, or "none"
    raisedIn,    \* the cell that exception left, or "none"
    fileKind,    \* data/raw/water_quality.csv on disk: missing, unparseable or a CSV
    dirs,        \* the directories that exist under the working directory
    bound,       \* the names bound in the kernel's namespace
    df,          \* the table: a sequence of columns
    numerical,   \* list of column names (cell 3)
    categorical, \* list of column names (cell 3)
    stdout,      \* what was printed, in order
    saves,       \* every plt.savefig call so far: path, whether reports/figures existed
    written,     \* the files the run has written
    entered,     \* the cells whose guarded body was entered
    calls        \* the pandas/seaborn computations the run has made

vars == <<pc, raised, raisedIn, fileKind, dirs, bound, df, numerical, categorical,
          stdout, saves, written, entered, calls>>

----------------------------------------------------------------------------
(* Bounds of the model *)

MaxCols == 2
MaxRows == 2

----------------------------------------------------------------------------
(* Names and paths *)

WQI == <<"WQI">>
Label == <<"Water Quality Classification">>

\* A column name that holds a "/", as unit-bearing headers do.
TDS == <<"TDS (mg", "/", "L)">>

\* The column names a CSV header is drawn from.
Names == {WQI, Label, TDS}

FigDir == <<"reports", "/", "figures">>
HeatmapPath == FigDir \o <<"/", "correlation_heatmap.png">>
TargetPath == FigDir \o <<"/", "target_variable_distribution.png">>
\* Mutant of DistributionPath: the f-string lacks the {col} field.
DistributionPathNoCol(col) == FigDir \o <<"/", "distribution_", ".png">>

DistributionPath(col) == FigDir \o <<"/", "distribution_">> \o col \o <<".png">>

\* The directory a path names a file in: the path up to its last "/".
Parent(path) ==
    LET slashes == {i \in 1..Len(path) : path[i] = "/"}
    IN  IF slashes = {} THEN <<>>
        ELSE LET last == CHOOSE i \in slashes : \A j \in slashes : j <= i
             IN  SubSeq(path, 1, last - 1)

----------------------------------------------------------------------------
(* Tables *)

NaN == -1

\* The storage types read_csv infers: text, numbers (float64 stands for the
\* numeric types, and is the one that can hold a missing cell) and booleans.
Dtypes == {"object", "float64", "bool"}

\* What a column of a storage type can hold: a bool column has no missing cell.
Cells(dtype) == IF dtype = "bool" THEN {0, 1} ELSE {0, NaN}

\* read_csv gives a column with no rows the object storage type.
ColumnBodies(rows) ==
    IF rows = 0
    THEN {[dtype |-> "object", vals |-> <<>>]}
    ELSE UNION {{[dtype |-> d, vals |-> v] : v \in [1..rows -> Cells(d)]} : d \in Dtypes}

\* Headers: read_csv makes the column names of a table pairwise different.
Headers(k) == {h \in [1..k -> Names] : \A i, j \in 1..k : i # j => h[i] # h[j]}

\* The table read_csv builds from a header and one body per column.
Table(h, b) == [i \in 1..Len(h) |-> [name |-> h[i], dtype |-> b[i].dtype, vals |-> b[i].vals]]

EmptyDataFrame == <<>>

FileKinds == {"missing", "unparseable", "csv"}

\* DataFrame accessors
Columns(t) == [i \in 1..Len(t) |-> t[i].name]
ColumnSet(t) == {t[i].name : i \in 1..Len(t)}
NRows(t) == IF Len(t) = 0 THEN 0 ELSE Len(t[1].vals)
Empty(t) == Len(t) = 0 \/ NRows(t) = 0

----------------------------------------------------------------------------
Init ==
    /\ pc = "load"
    /\ raised = "none"
    /\ raisedIn = "none"
    /\ fileKind \in FileKinds
    /\ dirs \in {{}, {<<"reports">>, FigDir}}
    /\ bound = {}
    /\ df = EmptyDataFrame
    /\ numerical = <<>>
    /\ categorical = <<>>
    /\ stdout = <<>>
    /\ saves = <<>>
    /\ written = {}
    /\ entered = {}
    /\ calls = {}

\* Mutant of MakeDirs: os.makedirs('reports') only.
MakeDirsParentOnly(ds) == ds \cup {<<"reports">>}

\* os.makedirs('reports/figures') creates the directory and its parents.
MakeDirs(ds) == ds \cup {<<"reports">>, FigDir}

\* What pd.read_csv raises for the file on disk ("none": it returns a table).
ReadCsvError(kind) ==
    CASE kind = "missing" -> "FileNotFoundError"
      [] kind = "unparseable" -> "ParserError"
      [] kind = "csv" -> "none"

\* Mutant of Caught: the try has no matching except clause.
CaughtNothing(exc) == FALSE

\* except FileNotFoundError:
Caught(exc) == exc = "FileNotFoundError"

\* Cell ba6c617f: 1. Create Directories and Load Dataset
Loader ==
    /\ pc = "load"
    /\ raised = "none"
    /\ IF FigDir \notin dirs
       THEN /\ dirs' = MakeDirs(dirs)
            /\ calls' = calls \cup {"makedirs"}
       ELSE UNCHANGED <<dirs, calls>>
    /\ LET exc == ReadCsvError(fileKind)
       IN  IF exc = "none"
           THEN /\ \E r \in 0..MaxRows, k \in 1..MaxCols :
                      \E h \in Headers(k), b \in [1..k -> ColumnBodies(r)] :
                         df' = Table(h, b)
                /\ bound' = bound \cup {"df"}
                /\ stdout' = Append(stdout, <<"loaded">>)
                /\ pc' = "overview"
                /\ UNCHANGED <<raised, raisedIn>>
           ELSE IF Caught(exc)
           THEN /\ df' = EmptyDataFrame
                /\ bound' = bound \cup {"df"}
                /\ stdout' = stdout \o << <<"not found">>, <<"ensure dataset">> >>
                /\ pc' = "overview"
                /\ UNCHANGED <<raised, raisedIn>>
           ELSE /\ raised' = exc
                /\ raisedIn' = "load"
                /\ pc' = "end"
                /\ UNCHANGED <<df, bound, stdout>>
    /\ UNCHANGED <<fileKind, numerical, categorical, saves, written, entered>>

----------------------------------------------------------------------------
(* pandas operations the cells call *)

NumberDtypes == {"float64"}
IsObject(c) == c.dtype = "object"
IsNumber(c) == c.dtype \in NumberDtypes

\* df.select_dtypes(include=...).columns.tolist(), in column order
SelectObject(t) == Columns(SelectSeq(t, IsObject))
SelectNumber(t) == Columns(SelectSeq(t, IsNumber))

\* df.corr(numeric_only=True) keeps the float, int and boolean columns.
CorrColumns(t) == {t[i].name : i \in {j \in 1..Len(t) : t[j].dtype \in NumberDtypes \cup {"bool"}}}

\* Mutant of IsUnique: nunique() == len, which drops missing values first.
IsUniqueDropna(vals) ==
    Cardinality({vals[i] : i \in {j \in 1..Len(vals) : vals[j] # NaN}}) = Len(vals)

\* Series.is_unique: no value occurs twice; a missing value is a value like any other.
IsUnique(vals) == \A i, j \in 1..Len(vals) : i # j => vals[i] # vals[j]

\* The lines the identifier loop prints for columns i..Len(t), in order.
RECURSIVE IdentifierLines(_, _)
IdentifierLines(t, i) ==
    IF i > Len(t) THEN <<>>
    ELSE (IF IsUnique(t[i].vals) THEN << <<"identifier", t[i].name>> >> ELSE <<>>)
         \o IdentifierLines(t, i + 1)

\* Mutant of NonEmpty: the guard looks at the columns only.
NonEmptyColumns(t) == Len(t) > 0

\* if not df.empty:
NonEmpty(t) == ~Empty(t)

\* Mutant of HasWQI: the emptiness guard of the cells above, copied.
HasWQIOrRows(t) == ~Empty(t)

\* if 'WQI' in df.columns:
HasWQI(t) == WQI \in ColumnSet(t)

\* Mutant of HasLabel: the emptiness guard of the cells above, copied.
HasLabelOrRows(t) == ~Empty(t)

\* if 'Water Quality Classification' in df.columns:
HasLabel(t) == Label \in ColumnSet(t)

\* plt.savefig(path) writes the file when the directory it names exists.
CanSave(path) == Parent(path) \in dirs
SaveRecord(path) == [path |-> path, figdir |-> FigDir \in dirs]

\* The first column of the list whose plot cannot be saved; Len + 1 if all can.
FirstUnsaved(cols) ==
    LET bad == {i \in 1..Len(cols) : ~CanSave(DistributionPath(cols[i]))}
    IN  IF bad = {} THEN Len(cols) + 1
        ELSE CHOOSE i \in bad : \A j \in bad : i <= j

----------------------------------------------------------------------------
\* Cell 70ac99b4: 2. Basic Dataset Overview
OverviewReporter ==
    /\ pc = "overview"
    /\ raised = "none"
    /\ pc' = "types"
    /\ IF NonEmpty(df)
       THEN /\ entered' = entered \cup {"overview"}
            /\ calls' = calls \cup {"info", "describe", "isnull"}
            /\ stdout' = stdout \o << <<"shape", NRows(df), Len(df)>>, <<"info">>,
                                      <<"describe">>, <<"columns">>, <<"missing values">> >>
       ELSE UNCHANGED <<entered, calls, stdout>>
    /\ UNCHANGED <<raised, raisedIn, fileKind, dirs, bound, df, numerical, categorical, saves, written>>

\* Cell 2a12e55a: 3. Identify Feature Types
TypeClassifier ==
    /\ pc = "types"
    /\ raised = "none"
    /\ pc' = "ident"
    /\ IF NonEmpty(df)
       THEN /\ entered' = entered \cup {"types"}
            /\ calls' = calls \cup {"select_dtypes"}
            /\ categorical' = SelectObject(df)
            /\ numerical' = SelectNumber(df)
            /\ bound' = bound \cup {"categorical", "numerical"}
            /\ stdout' = stdout \o << <<"numerical columns">>, <<"categorical columns">> >>
       ELSE UNCHANGED <<entered, calls, categorical, numerical, bound, stdout>>
    /\ UNCHANGED <<raised, raisedIn, fileKind, dirs, df, saves, written>>

\* What cell 4 prints and records
IdentifierCheck ==
    /\ pc = "ident"
    /\ raised = "none"
    /\ pc' = "corr"
    /\ IF NonEmpty(df)
       THEN /\ entered' = entered \cup {"ident"}
            /\ calls' = calls \cup {"is_unique"}
            /\ LET lines == IdentifierLines(df, 1)
                   is_identifier_found == lines # <<>>
               IN  stdout' = stdout \o << <<"checking identifiers">> >> \o lines
                                    \o (IF ~is_identifier_found
                                        THEN << <<"no identifier">> >> ELSE <<>>)
       ELSE UNCHANGED <<entered, calls, stdout>>

\* Mutant of IdentifierScanner: the loop drops the identifier columns from df.
IdentifierScannerDropping ==
    /\ IdentifierCheck
    /\ df' = IF NonEmpty(df) THEN SelectSeq(df, LAMBDA c : ~IsUnique(c.vals)) ELSE df
    /\ UNCHANGED <<raised, raisedIn, fileKind, dirs, bound, numerical, categorical,
                   saves, written>>

\* Cell 8e0ca7fa: 4. Identifier Check
IdentifierScanner ==
    /\ IdentifierCheck
    /\ UNCHANGED <<raised, raisedIn, fileKind, dirs, bound, df, numerical, categorical,
                   saves, written>>

\* Cell ab670fc5: 5.1. WQI Correlation Analysis
CorrelationAnalyzer ==
    /\ pc = "corr"
    /\ raised = "none"
    /\ IF HasWQI(df)
       THEN /\ entered' = entered \cup {"corr"}
            /\ IF WQI \notin CorrColumns(df)
               THEN \* correlation['WQI'] on a matrix without that column
                    /\ calls' = calls \cup {"corr"}
                    /\ bound' = bound \cup {"correlation"}
                    /\ raised' = "KeyError"
                    /\ raisedIn' = "corr"
                    /\ pc' = "end"
                    /\ UNCHANGED <<stdout, saves, written>>
               ELSE /\ calls' = calls \cup {"corr", "sort_values", "heatmap"}
                    /\ bound' = bound \cup {"correlation", "wqi_corr"}
                    /\ saves' = Append(saves, SaveRecord(HeatmapPath))
                    /\ IF CanSave(HeatmapPath)
                       THEN /\ written' = written \cup {HeatmapPath}
                            /\ stdout' = stdout \o << <<"correlation with WQI">>, <<"wqi_corr">>,
                                                      <<"heatmap saved">> >>
                            /\ pc' = "target"
                            /\ UNCHANGED <<raised, raisedIn>>
                       ELSE /\ stdout' = stdout \o << <<"correlation with WQI">>, <<"wqi_corr">> >>
                            /\ raised' = "FileNotFoundError"
                            /\ raisedIn' = "corr"
                            /\ pc' = "end"
                            /\ UNCHANGED written
       ELSE /\ stdout' = Append(stdout, <<"warning: WQI not found">>)
            /\ pc' = "target"
            /\ UNCHANGED <<entered, calls, bound, raised, raisedIn, saves, written>>
    /\ UNCHANGED <<fileKind, dirs, df, numerical, categorical>>

\* Cell f33348f2: 6.1. Target Variable Distribution
TargetDistributionVisualizer ==
    /\ pc = "target"
    /\ raised = "none"
    /\ IF HasLabel(df)
       THEN /\ entered' = entered \cup {"target"}
            /\ calls' = calls \cup {"value_counts", "countplot"}
            /\ saves' = Append(saves, SaveRecord(TargetPath))
            /\ IF CanSave(TargetPath)
               THEN /\ written' = written \cup {TargetPath}
                    /\ stdout' = stdout \o << <<"target plot saved">>, <<"class balance">>,
                                              <<"value_counts">> >>
                    /\ pc' = "dist"
                    /\ UNCHANGED <<raised, raisedIn>>
               ELSE /\ raised' = "FileNotFoundError"
                    /\ raisedIn' = "target"
                    /\ pc' = "end"
                    /\ UNCHANGED <<written, stdout>>
       ELSE /\ stdout' = Append(stdout, <<"warning: label not found">>)
            /\ pc' = "dist"
            /\ UNCHANGED <<entered, calls, raised, raisedIn, saves, written>>
    /\ UNCHANGED <<fileKind, dirs, bound, df, numerical, categorical>>

\* Cell 82f551b6: 7.1. Visualize Numerical Feature Distributions
FeatureDistributionVisualizer ==
    /\ pc = "dist"
    /\ raised = "none"
    /\ pc' = "end"
    /\ IF NonEmpty(df)
       THEN /\ entered' = entered \cup {"dist"}
            /\ IF "numerical" \notin bound
               THEN /\ raised' = "NameError"
                    /\ raisedIn' = "dist"
                    /\ stdout' = Append(stdout, <<"visualizing">>)
                    /\ UNCHANGED <<calls, saves, written>>
               ELSE LET stop == FirstUnsaved(numerical)
                        tried == IF stop > Len(numerical) THEN Len(numerical) ELSE stop
                    IN  /\ calls' = IF tried > 0 THEN calls \cup {"histplot", "boxplot"}
                                    ELSE calls
                        /\ saves' = saves \o [i \in 1..tried |->
                                                SaveRecord(DistributionPath(numerical[i]))]
                        /\ written' = written \cup
                                        {DistributionPath(numerical[i]) : i \in 1..(stop - 1)}
                        /\ IF stop > Len(numerical)
                           THEN /\ stdout' = stdout \o << <<"visualizing">>, <<"all saved">> >>
                                /\ UNCHANGED <<raised, raisedIn>>
                           ELSE /\ stdout' = Append(stdout, <<"visualizing">>)
                                /\ raised' = "FileNotFoundError"
                                /\ raisedIn' = "dist"
       ELSE UNCHANGED <<entered, calls, raised, raisedIn, stdout, saves, written>>
    /\ UNCHANGED <<fileKind, dirs, bound, df, numerical, categorical>>

Next ==
    \/ Loader
    \/ OverviewReporter
    \/ TypeClassifier
    \/ IdentifierScanner
    \/ CorrelationAnalyzer
    \/ TargetDistributionVisualizer
    \/ FeatureDistributionVisualizer

Spec == Init /\ [][Next]_vars

----------------------------------------------------------------------------
(* Properties *)

Range(s) == {s[i] : i \in 1..Len(s)}

Loaded == "df" \in bound
TableEmpty == Len(df) = 0 \/ NRows(df) = 0
ExpectedDistribution(col) == <<"reports", "/", "figures", "/", "distribution_">> \o col \o <<".png">>

\* C1: when data/raw/water_quality.csv does not exist, the Loader ends with df
\* bound to a table of zero rows and zero columns, and no exception leaves it.
C1_MissingFileEmptyTable ==
    (fileKind = "missing" /\ pc # "load")
        => /\ Loaded
           /\ Len(df) = 0
           /\ NRows(df) = 0
           /\ raisedIn # "load"

C1_Witness ==
    /\ fileKind = "missing"
    /\ pc = "overview"
    /\ Loaded
    /\ df = <<>>
    /\ <<"not found">> \in Range(stdout)

\* C2: for every input the run reaches the end of the Feature Distribution
\* Visualizer with no uncaught exception in any stage.
C2_AlwaysCompletes == raised = "none"

\* C3: if the loaded table has no 'WQI' column, the Correlation Analyzer computes
\* no correlation matrix, correlation_heatmap.png is not written by the run,
\* and the cell prints the warning and nothing else.
C3_NoWQINoHeatmap ==
    /\ []((Loaded /\ WQI \notin ColumnSet(df))
            => /\ "corr" \notin calls
               /\ "correlation" \notin bound
               /\ HeatmapPath \notin written
               /\ \A i \in 1..Len(saves) : saves[i].path # HeatmapPath)
    /\ [][(pc = "corr" /\ WQI \notin ColumnSet(df))
            => /\ stdout' = Append(stdout, <<"warning: WQI not found">>)
               /\ UNCHANGED <<calls, bound, written, saves, entered, raised>>]_vars

C3_Witness ==
    /\ pc = "target"
    /\ Loaded
    /\ ~TableEmpty
    /\ WQI \notin ColumnSet(df)
    /\ stdout[Len(stdout)] = <<"warning: WQI not found">>
    /\ written = {}

\* C4: if the loaded table has no 'Water Quality Classification' column, the
\* Target Distribution Visualizer computes no value counts,
\* target_variable_distribution.png is not written by the run, and the cell
\* prints the warning and nothing else.
C4_NoLabelNoPlot ==
    /\ []((Loaded /\ Label \notin ColumnSet(df))
            => /\ "value_counts" \notin calls
               /\ "countplot" \notin calls
               /\ TargetPath \notin written
               /\ \A i \in 1..Len(saves) : saves[i].path # TargetPath)
    /\ [][(pc = "target" /\ Label \notin ColumnSet(df))
            => /\ stdout' = Append(stdout, <<"warning: label not found">>)
               /\ UNCHANGED <<calls, bound, written, saves, entered, raised>>]_vars

C4_Witness ==
    /\ pc = "dist"
    /\ Loaded
    /\ ~TableEmpty
    /\ Label \notin ColumnSet(df)
    /\ stdout[Len(stdout)] = <<"warning: label not found">>
    /\ TargetPath \notin written

\* C5: for every non-empty table, after the Type Classifier the numerical and
\* categorical lists share no column and together hold every column of the
\* table, whatever the storage types are.
C5_Partition ==
    "types" \in entered
        => /\ Range(numerical) \cap Range(categorical) = {}
           /\ Range(numerical) \cup Range(categorical) = ColumnSet(df)

\* C6: for every non-empty table, the Identifier Scanner reports a column iff
\* the number of distinct values in it (a missing value counting as a value)
\* equals the number of rows, and prints 'No identifier columns found.' iff
\* no column qualifies.
C6_IdentifierIffAllDistinct ==
    (Loaded /\ ~TableEmpty /\ pc \in {"corr", "target", "dist", "end"})
        => /\ "ident" \in entered
           /\ \A i \in 1..Len(df) :
                 (<<"identifier", df[i].name>> \in Range(stdout))
                     <=> (Cardinality(Range(df[i].vals)) = NRows(df))
           /\ (<<"no identifier">> \in Range(stdout))
                 <=> (\A i \in 1..Len(df) : Cardinality(Range(df[i].vals)) # NRows(df))

C6_Witness ==
    /\ pc = "corr"
    /\ \E i, j \in 1..Len(df) :
          /\ NaN \in Range(df[i].vals)
          /\ <<"identifier", df[i].name>> \in Range(stdout)
          /\ <<"identifier", df[j].name>> \notin Range(stdout)

EmptinessGuarded == {"overview", "types", "ident", "dist"}
WarningLines == {<<"warning: WQI not found">>, <<"warning: label not found">>}
StageOrder == <<"overview", "types", "ident", "corr", "target", "dist">>
StageNo(stage) == CHOOSE i \in 1..Len(StageOrder) : StageOrder[i] = stage

\* The cells after the Loader that the run has been through
Passed ==
    IF raisedIn = "load" \/ pc = "load" THEN {}
    ELSE IF raisedIn # "none" THEN {StageOrder[i] : i \in 1..StageNo(raisedIn)}
    ELSE IF pc = "end" THEN Range(StageOrder)
    ELSE {StageOrder[i] : i \in 1..(StageNo(pc) - 1)}

\* C7 as stated: every stage whose guard fails prints a warning (none is
\* skipped silently), and no stage runs its body when the table is empty.
C7_WarningOnEverySkip ==
    /\ Cardinality({i \in 1..Len(stdout) : stdout[i] \in WarningLines})
          = Cardinality(Passed \ entered)
    /\ TableEmpty => entered = {}

\* C7 as amended: a stage whose guard fails changes nothing and writes no file;
\* the Correlation Analyzer and the Target Distribution Visualizer then print
\* one warning, the Overview Reporter, Type Classifier, Identifier Scanner and
\* Feature Distribution Visualizer print nothing; those four are guarded by
\* emptiness and never run their body on an empty table, the other two are
\* guarded by the presence of their column only.
C7_GuardedStages ==
    [][/\ (pc \in EmptinessGuarded /\ TableEmpty)
            => UNCHANGED <<raised, raisedIn, fileKind, dirs, bound, df, numerical,
                           categorical, stdout, saves, written, entered, calls>>
       /\ (pc \in EmptinessGuarded /\ ~TableEmpty) => pc \in entered'
       /\ (pc = "corr" /\ WQI \notin ColumnSet(df))
            => /\ stdout' = Append(stdout, <<"warning: WQI not found">>)
               /\ UNCHANGED <<raised, raisedIn, fileKind, dirs, bound, df, numerical,
                              categorical, saves, written, entered, calls>>
       /\ (pc = "corr" /\ WQI \in ColumnSet(df)) => "corr" \in entered'
       /\ (pc = "target" /\ Label \notin ColumnSet(df))
            => /\ stdout' = Append(stdout, <<"warning: label not found">>)
               /\ UNCHANGED <<raised, raisedIn, fileKind, dirs, bound, df, numerical,
                              categorical, saves, written, entered, calls>>
       /\ (pc = "target" /\ Label \in ColumnSet(df)) => "target" \in entered'
      ]_vars

\* A header-only CSV with a WQI column: four stages skipped without a line of
\* output, then the Correlation Analyzer's body run on the empty table.
C7_Witness ==
    /\ Loaded
    /\ Len(df) > 0
    /\ NRows(df) = 0
    /\ stdout = << <<"loaded">> >>
    /\ entered = {"corr"}
    /\ "corr" \in calls

\* C8: for every non-empty table, when the Feature Distribution Visualizer
\* finishes, the distribution files written are exactly one per column of the
\* numerical list, reports/figures/distribution_<column>.png, different columns
\* giving different files, and none is written for a categorical column.
C8_OneFilePerNumericalColumn ==
    (pc = "end" /\ raised = "none" /\ Loaded /\ ~TableEmpty)
        => LET dist == written \ {HeatmapPath, TargetPath}
               distSaves == {i \in 1..Len(saves) : saves[i].path \notin {HeatmapPath, TargetPath}}
           IN  /\ "dist" \in entered
               /\ dist = {ExpectedDistribution(numerical[i]) : i \in 1..Len(numerical)}
               /\ Cardinality(dist) = Len(numerical)
               /\ Cardinality(distSaves) = Len(numerical)
               /\ \A i \in 1..Len(categorical) :
                     ExpectedDistribution(categorical[i]) \notin written

C8_Witness ==
    /\ pc = "end"
    /\ raised = "none"
    /\ Len(numerical) = 2
    /\ numerical[1] # numerical[2]
    /\ ExpectedDistribution(numerical[1]) \in written
    /\ ExpectedDistribution(numerical[2]) \in written

\* C9: reports/figures exists at the moment of every image save, whether or not
\* it existed at the start and whether the load succeeded or failed.
C9_FigDirExistsAtEverySave ==
    \A i \in 1..Len(saves) : saves[i].figdir

C9_Witness ==
    /\ "makedirs" \in calls
    /\ pc = "end"
    /\ Len(saves) = 3
    /\ \E i \in 1..3 : saves[i].path = HeatmapPath
    /\ \E i \in 1..3 : saves[i].path = TargetPath

\* C10: df is assigned by the Loader only and numerical/categorical by the Type
\* Classifier only; every later stage leaves them unchanged.
C10_LoadedOnceNeverMutated ==
    [][/\ pc # "load" => df' = df
       /\ pc \notin {"load", "overview", "types"}
            => (numerical' = numerical /\ categorical' = categorical)
       /\ pc # "load" => (Loaded <=> "df" \in bound')
      ]_vars

C10_Witness ==
    /\ pc = "end"
    /\ raised = "none"
    /\ ~TableEmpty
    /\ entered = {"overview", "types", "ident", "corr", "target", "dist"}
    /\ numerical # <<>>
    /\ categorical # <<>>
====
